---- MODULE Spec2Model ----
(***************************************************************************)
(* A model of the medical-facility backend:                                *)
(*   - MapController.searchProviders      (src/src/controllers/mapController.js) *)
(*   - geocodePincode, searchHealthcareProviders,                          *)
(*     formatProviderFromGoogleMaps, generateStaticMapUrl, getProviderType *)
(*                                         (src/src/utils/googleMapsUtils.js) *)
(*   - the /api/facilities and /api/history routes (src/unnamed/part_001)  *)
(*                                                                         *)
(* JavaScript values: a query parameter is a string or undefined; the      *)
(* value undefined is the string Undefined, which no input set holds as a  *)
(* real parameter value.  An object whose key may be missing is a record   *)
(* whose DOMAIN may lack the key.  Coordinates are integers in units of    *)
(* 1/10000 degree, so that the default centre 37.7749,-122.4194 is exact.  *)
(***************************************************************************)
EXTENDS Integers, Sequences, FiniteSets, TLC

VARIABLES
    \* ---- MapController.searchProviders (one request at a time is enough:
    \*      the handler shares no state between requests)
    pc,                \* position of the handler: the await it is suspended at
    req,               \* req.query, destructured
    latitude, longitude, isUserLocation, formattedAddress,
    providers,         \* the local `providers`
    calls,             \* the adapter and upstream calls made by this request, in order
    res,               \* the response sent, or NoResponse
    \* ---- direct calls of the utility functions
    uop,               \* which utility was applied last
    uin,               \* its input
    uout,              \* its output
    \* ---- /api/facilities and /api/history (part_001)
    history,           \* the search_history table, in insertion order
    nextId,            \* the SERIAL id the table hands out next
    slots,             \* the handler runs of part_001, each with its locals
    \* ---- MapController.getProviderDetails and the provider store
    detailsPc,         \* position of the handler: the await it is suspended at
    placeId,           \* req.params.placeId
    placeDetails,      \* the local `placeDetails`
    detailsCalls,      \* the store and upstream calls made by this request, in order
    detailsRes,        \* the response sent, or NoResponse
    providerStore,     \* the rows of the provider store
    detailsLog         \* the requests answered so far, in order

searchVars == <<pc, req, latitude, longitude, isUserLocation, formattedAddress,
                providers, calls, res>>
utilVars == <<uop, uin, uout>>
historyVars == <<history, nextId, slots>>
detailsVars == <<detailsPc, placeId, placeDetails, detailsCalls, detailsRes,
                 providerStore, detailsLog>>
vars == <<searchVars, utilVars, historyVars, detailsVars>>

-----------------------------------------------------------------------------
(* Bounds *)

\* longest provider list handed to the URL builder (more than its cap of 10)
MaxProviders == 12
\* granularity of Math.random(): it returns k / RandDenom, k in 0..RandDenom-1
RandDenom == 20
\* longest result list an upstream search or the store returns in a request
MaxResults == 2
\* requests that part_001 serves, each by its own run of a handler; they overlap
\* in every way the awaits allow
MaxRequests == 2
\* how many getProviderDetails requests are followed
MaxLookups == 2

-----------------------------------------------------------------------------
(* JavaScript helpers *)

Undefined == "<undefined>"
Null == "<null>"
NoResponse == [status |-> 0]

\* truthiness of a string-or-undefined value
Truthy(v) == v # Undefined /\ v # Null /\ v # ""

\* a || b on strings
OrElse(a, b) == IF Truthy(a) THEN a ELSE b

\* truthiness of the number under key k of object o (a missing key is undefined)
TruthyNum(o, k) == k \in DOMAIN o /\ o[k] # 0

Min(a, b) == IF a < b THEN a ELSE b

\* String.prototype.includes
Includes(s, k) ==
    \E i \in 1..(Len(s) - Len(k) + 1) : SubSeq(s, i, i + Len(k) - 1) = k

UpperCase == "ABCDEFGHIJKLMNOPQRSTUVWXYZ"
LowerCase == "abcdefghijklmnopqrstuvwxyz"

UpperChars == {SubSeq(UpperCase, i, i) : i \in 1..26}
LowerOf ==
    [c \in UpperChars |->
        SubSeq(LowerCase, CHOOSE j \in 1..26 : SubSeq(UpperCase, j, j) = c,
                          CHOOSE j \in 1..26 : SubSeq(UpperCase, j, j) = c)]
LowerChar(c) == IF c \in UpperChars THEN LowerOf[c] ELSE c

\* String.prototype.toLowerCase
RECURSIVE toLowerCase(_)
toLowerCase(s) ==
    IF Len(s) = 0 THEN ""
    ELSE LowerChar(SubSeq(s, 1, 1)) \o toLowerCase(SubSeq(s, 2, Len(s)))

\* String.prototype.trim (spaces only: the inputs hold no other white space)
RECURSIVE trim(_)
trim(s) ==
    IF Len(s) = 0 THEN s
    ELSE IF SubSeq(s, 1, 1) = " " THEN trim(SubSeq(s, 2, Len(s)))
    ELSE IF SubSeq(s, Len(s), Len(s)) = " " THEN trim(SubSeq(s, 1, Len(s) - 1))
    ELSE s

Digits == "0123456789"
DigitVal(c) == (CHOOSE j \in 1..10 : SubSeq(Digits, j, j) = c) - 1
\* parseInt on a string of decimal digits
RECURSIVE parseInt(_)
parseInt(s) ==
    IF Len(s) = 0 THEN 0
    ELSE 10 * parseInt(SubSeq(s, 1, Len(s) - 1)) + DigitVal(SubSeq(s, Len(s), Len(s)))

\* parseFloat on a string of decimal digits, in units of 1/10000 degree
parseFloat(s) == parseInt(s) * 10000

\* Array.prototype.join(' ')
RECURSIVE join(_)
join(ts) ==
    IF Len(ts) = 0 THEN ""
    ELSE IF Len(ts) = 1 THEN ts[1]
    ELSE ts[1] \o " " \o join(Tail(ts))

\* Array.prototype.slice(0, n)
slice(xs, n) == SubSeq(xs, 1, Min(Len(xs), n))

SeqsUpTo(S, n) == UNION {[1..k -> S] : k \in 0..n}

\* the lists of at most n distinct elements of S
ListsUpTo(S, n) ==
    {l \in SeqsUpTo(S, n) : \A i, j \in 1..Len(l) : i # j => l[i] # l[j]}

-----------------------------------------------------------------------------
(* googleMapsUtils.js *)

MEDICAL_PLACE_TYPES ==
    {"hospital", "doctor", "health", "dentist", "pharmacy", "physiotherapist",
     "medical_office"}

\* Math.random() is k / RandDenom for a k of Rand
Rand == 0..(RandDenom - 1)

\* Math.floor(Math.random() * n) for the draw k
floorRandom(k, n) == (k * n) \div RandDenom

\* The upstream geocoding call's outcome: it throws, or it answers with a result list.
\* geocodePincode(pincode, country) with `upstream` the outcome of
\* googleMapsClient.geocode should it be called; upstreamCalls counts those calls.
\* (a variant that accepts a code of length 3)
geocodePincodeShorter(pincode, upstream) ==
    IF ~Truthy(pincode) \/ Len(pincode) < 3
    THEN [ok |-> FALSE, message |-> "Failed to geocode pincode: Invalid pincode format",
          upstreamCalls |-> 0, lat |-> 0, lng |-> 0, formattedAddress |-> Undefined]
    ELSE IF upstream.kind = "throw"
    THEN [ok |-> FALSE, message |-> "Failed to geocode pincode: " \o upstream.message,
          upstreamCalls |-> 1, lat |-> 0, lng |-> 0, formattedAddress |-> Undefined]
    ELSE IF Len(upstream.results) > 0
    THEN [ok |-> TRUE, message |-> "",
          upstreamCalls |-> 1,
          lat |-> upstream.results[1].geometry.location.lat,
          lng |-> upstream.results[1].geometry.location.lng,
          formattedAddress |-> upstream.results[1].formatted_address]
    ELSE [ok |-> FALSE,
          message |-> "Failed to geocode pincode: No location found for this pincode",
          upstreamCalls |-> 1, lat |-> 0, lng |-> 0, formattedAddress |-> Undefined]

geocodePincode(pincode, upstream) ==
    IF ~Truthy(pincode) \/ Len(pincode) < 4
    THEN [ok |-> FALSE, message |-> "Failed to geocode pincode: Invalid pincode format",
          upstreamCalls |-> 0, lat |-> 0, lng |-> 0, formattedAddress |-> Undefined]
    ELSE IF upstream.kind = "throw"
    THEN [ok |-> FALSE, message |-> "Failed to geocode pincode: " \o upstream.message,
          upstreamCalls |-> 1, lat |-> 0, lng |-> 0, formattedAddress |-> Undefined]
    ELSE IF Len(upstream.results) > 0
    THEN [ok |-> TRUE, message |-> "",
          upstreamCalls |-> 1,
          lat |-> upstream.results[1].geometry.location.lat,
          lng |-> upstream.results[1].geometry.location.lng,
          formattedAddress |-> upstream.results[1].formatted_address]
    ELSE [ok |-> FALSE,
          message |-> "Failed to geocode pincode: No location found for this pincode",
          upstreamCalls |-> 1, lat |-> 0, lng |-> 0, formattedAddress |-> Undefined]

\* place.name || '' and the default of the parameter `types = []`
nameOf(place) == IF "name" \in DOMAIN place /\ Truthy(place.name) THEN place.name ELSE ""
typesOf(place) == IF "types" \in DOMAIN place THEN place.types ELSE <<>>

\* (a variant whose first two branches are swapped)
getProviderTypeDoctorFirst(types, place) ==
    LET name == toLowerCase(nameOf(place))
        typesStr == toLowerCase(join(types))
    IN  IF Includes(typesStr, "doctor") \/ Includes(name, "doctor")
           \/ Includes(typesStr, "physician") THEN "Doctor"
        ELSE IF Includes(typesStr, "hospital") \/ Includes(name, "hospital") THEN "Hospital"
        ELSE IF Includes(typesStr, "clinic") \/ Includes(name, "clinic")
                \/ Includes(name, "phc") THEN "Clinic"
        ELSE IF Includes(typesStr, "pharmacy") \/ Includes(name, "pharmacy")
                \/ Includes(name, "drug") THEN "Pharmacy"
        ELSE IF Includes(typesStr, "dentist") \/ Includes(name, "dental")
                \/ Includes(name, "dentist") THEN "Dentist"
        ELSE IF Includes(typesStr, "laboratory") \/ Includes(name, "lab")
                \/ Includes(name, "test") THEN "Laboratory"
        ELSE "Healthcare Provider"

\* getProviderType(types = [], place)
getProviderType(types, place) ==
    LET name == toLowerCase(nameOf(place))
        typesStr == toLowerCase(join(types))
    IN  IF Includes(typesStr, "hospital") \/ Includes(name, "hospital") THEN "Hospital"
        ELSE IF Includes(typesStr, "doctor") \/ Includes(name, "doctor")
                \/ Includes(typesStr, "physician") THEN "Doctor"
        ELSE IF Includes(typesStr, "clinic") \/ Includes(name, "clinic")
                \/ Includes(name, "phc") THEN "Clinic"
        ELSE IF Includes(typesStr, "pharmacy") \/ Includes(name, "pharmacy")
                \/ Includes(name, "drug") THEN "Pharmacy"
        ELSE IF Includes(typesStr, "dentist") \/ Includes(name, "dental")
                \/ Includes(name, "dentist") THEN "Dentist"
        ELSE IF Includes(typesStr, "laboratory") \/ Includes(name, "lab")
                \/ Includes(name, "test") THEN "Laboratory"
        ELSE "Healthcare Provider"

\* the fields of `place` for which formatProviderFromGoogleMaps calls Math.random()
\* (x || default: a missing field, and a field that is 0)
needsRandom(place) ==
    {f \in {"rating", "price_level", "user_ratings_total"} : ~TruthyNum(place, f)}

\* formatProviderFromGoogleMaps(place); rs holds the values Math.random() returns,
\* in call order (rating, then priceLevel, then reviewCount).  The fields id,
\* address, phoneNumber, website, openNow and photos are copied from the place and
\* take no part in any decision; they are left out.
formatProviderFromGoogleMaps(place, rs) ==
    LET nR == IF TruthyNum(place, "rating") THEN 0 ELSE 1
        nP == IF TruthyNum(place, "price_level") THEN 0 ELSE 1
    IN  [placeId     |-> IF "place_id" \in DOMAIN place THEN place.place_id ELSE Undefined,
         name        |-> OrElse(nameOf(place), "Unknown Provider"),
         lat         |-> place.geometry.location.lat,
         lng         |-> place.geometry.location.lng,
         type        |-> getProviderType(typesOf(place), place),
         rating      |-> IF TruthyNum(place, "rating") THEN place.rating
                         ELSE floorRandom(rs[1], 3) + 3,
         priceLevel  |-> IF TruthyNum(place, "price_level") THEN place.price_level
                         ELSE floorRandom(rs[nR + 1], 3) + 1,
         reviewCount |-> IF TruthyNum(place, "user_ratings_total")
                         THEN place.user_ratings_total
                         ELSE floorRandom(rs[nR + nP + 1], 20) + 5]

\* results.map(place => formatProviderFromGoogleMaps(place)); rss[i] is the random
\* stream consumed for the i-th place
formatAll(places, rss) ==
    [i \in 1..Len(places) |-> formatProviderFromGoogleMaps(places[i], rss[i])]

\* the random streams a list of places may consume
RECURSIVE RandomStreams(_)
RandomStreams(places) ==
    IF Len(places) = 0 THEN {<<>>}
    ELSE {<<rs>> \o rest :
            rs \in [1..Cardinality(needsRandom(Head(places))) -> Rand],
            rest \in RandomStreams(Tail(places))}

\* One query parameter of the static-map URL.  A marker is
\* &markers=color:<color>%7Clabel:<label>%7C<lat>,<lng> (the blue one has no label: 0).
Marker(color, label, lat, lng) ==
    [param |-> "markers", color |-> color, label |-> label, lat |-> lat, lng |-> lng]

redMarkers(providerList) ==
    [i \in 1..Len(slice(providerList, 10)) |->
        Marker("red", i, providerList[i].lat, providerList[i].lng)]

\* generateStaticMapUrl(center, providers, zoom, width, height): the URL as the
\* sequence of its query parameters
generateStaticMapUrl(center, providerList, zoom, width, height) ==
    <<[param |-> "center", lat |-> center.lat, lng |-> center.lng, zoom |-> zoom],
      [param |-> "size", width |-> width, height |-> height]>>
    \o (IF Len(providerList) > 0
        THEN redMarkers(providerList)
             \o (IF center.isUserLocation
                 THEN <<Marker("blue", 0, center.lat, center.lng)>>
                 ELSE <<>>)
        ELSE <<>>)
    \o <<[param |-> "key"]>>


Range(f) == {f[i] : i \in DOMAIN f}

baseKeywords == {"healthcare", "medical", "hospital", "clinic", "doctor"}

\* the keyword searchHealthcareProviders sends upstream
finalKeyword(query, options) ==
    LET searchQuery ==
            IF Truthy(options.type) \/ Truthy(options.specialty)
            THEN trim(query \o " " \o OrElse(options.type, "") \o " "
                      \o OrElse(options.specialty, ""))
            ELSE query
    IN  IF \E keyword \in baseKeywords : Includes(toLowerCase(searchQuery), keyword)
        THEN searchQuery
        ELSE searchQuery \o " healthcare"

\* whether searchHealthcareProviders takes the Places Nearby Search branch
useNearbySearch(options) == TruthyNum(options, "lat") /\ TruthyNum(options, "lng")

\* searchParams.type: set only for a recognized place type
typeFilter(options) ==
    IF Truthy(options.type) /\ toLowerCase(options.type) \in MEDICAL_PLACE_TYPES
    THEN toLowerCase(options.type)
    ELSE Undefined

\* the call searchHealthcareProviders makes on googleMapsClient
upstreamSearchCall(query, options) ==
    IF useNearbySearch(options)
    THEN [fn |-> "googleMapsClient.placesNearby",
          keyword |-> finalKeyword(query, options),
          type |-> typeFilter(options),
          location |-> <<options.lat, options.lng>>,
          radius |-> IF TruthyNum(options, "radius") THEN options.radius ELSE 5000]
    ELSE [fn |-> "googleMapsClient.textSearch",
          keyword |-> finalKeyword(query, options),
          type |-> typeFilter(options),
          location |-> <<>>,
          radius |-> 0]

isMedicalPlace(place) ==
    "types" \in DOMAIN place /\ \E type \in Range(place.types) : type \in MEDICAL_PLACE_TYPES

\* the raw results searchHealthcareProviders keeps, given the upstream outcome
\* (kind "throw": the call throws; "nodata": a response without results;
\*  "ok": response.data.results = upstream.results)
survivingResults(options, upstream) ==
    IF upstream.kind # "ok" THEN <<>>
    ELSE IF ~Truthy(options.type) THEN SelectSeq(upstream.results, isMedicalPlace)
    ELSE upstream.results

\* searchHealthcareProviders(query, options): what it returns or throws
searchHealthcareProviders(query, options, upstream, rss) ==
    IF upstream.kind = "throw"
    THEN [ok |-> FALSE, message |-> "Failed to search healthcare providers",
          providers |-> <<>>]
    ELSE [ok |-> TRUE, message |-> "",
          providers |-> formatAll(survivingResults(options, upstream), rss)]

-----------------------------------------------------------------------------
(* mapController.js: MapController.searchProviders *)

DefaultLatitude == 377749
DefaultLongitude == -1224194

NullUrl == <<>>
NoCenter == [lat |-> 0, lng |-> 0]

\* (a variant that answers every failure with 500)
ErrorResponseAlways500(status, error, details) ==
    [status |-> 500,
     keys |-> {"error", "providers", "mapUrl"}
              \cup (IF details = Undefined THEN {} ELSE {"details"}),
     error |-> error, details |-> details,
     providers |-> <<>>, mapUrl |-> <<>>,
     center |-> [lat |-> 0, lng |-> 0], formattedAddress |-> Undefined]

\* res.status(status).json({error, [details,] providers: [], mapUrl: null})
ErrorResponse(status, error, details) ==
    [status |-> status,
     keys |-> {"error", "providers", "mapUrl"}
              \cup (IF details = Undefined THEN {} ELSE {"details"}),
     error |-> error, details |-> details,
     providers |-> <<>>, mapUrl |-> NullUrl,
     center |-> NoCenter, formattedAddress |-> Undefined]

\* (a variant that leaves the address out of the result)
OkResponseNoAddress(lat, lng, userLocation, address, providerList) ==
    [status |-> 200,
     keys |-> {"providers", "mapUrl", "center", "formattedAddress"},
     error |-> Undefined, details |-> Undefined,
     providers |-> providerList,
     mapUrl |-> generateStaticMapUrl(
                    [lat |-> lat, lng |-> lng, isUserLocation |-> userLocation],
                    providerList, 14, 600, 400),
     center |-> [lat |-> lat, lng |-> lng],
     formattedAddress |-> Null]

\* lines 168-187: build the map URL and send the result
OkResponse(lat, lng, userLocation, address, providerList) ==
    [status |-> 200,
     keys |-> {"providers", "mapUrl", "center", "formattedAddress"},
     error |-> Undefined, details |-> Undefined,
     providers |-> providerList,
     mapUrl |-> generateStaticMapUrl(
                    [lat |-> lat, lng |-> lng, isUserLocation |-> userLocation],
                    providerList, 14, 600, 400),
     center |-> [lat |-> lat, lng |-> lng],
     formattedAddress |-> address]

MapUrlCall == [fn |-> "generateStaticMapUrl"]

\* line 48: not enough parameters to search
missingParameters(q) ==
    ~Truthy(q.query) /\ ~Truthy(q.lat) /\ ~Truthy(q.lng) /\ ~Truthy(q.pincode)

\* line 103: the text-search branch
isTextSearch(q) ==
    Truthy(q.query) /\ ~Truthy(q.lat) /\ ~Truthy(q.lng) /\ ~Truthy(q.pincode)


\* ---- the inputs of a request and the outcomes of the adapters' upstream calls

QueryValues == {Undefined, "", "eye care"}
LatValues == {Undefined, "0", "13"}
LngValues == {Undefined, "0", "77"}
PincodeValues == {Undefined, "1", "560001"}
TypeValues == {Undefined, "Hospital", "spa"}
SpecialtyValues == {Undefined, "cardiology"}

\* req.query; radius, priceRange, insurance and country are not given (radius then
\* defaults to 5000, country to 'IN'), they are only passed on
Requests ==
    [query : QueryValues, lat : LatValues, lng : LngValues, pincode : PincodeValues,
     type : TypeValues, specialty : SpecialtyValues]

NoRequest ==
    [query |-> Undefined, lat |-> Undefined, lng |-> Undefined, pincode |-> Undefined,
     type |-> Undefined, specialty |-> Undefined]

Location(lat, lng) == [location |-> [lat |-> lat, lng |-> lng]]

GeocodeOutcomes ==
    {[kind |-> "throw", message |-> "REQUEST_DENIED", results |-> <<>>],
     [kind |-> "ok", message |-> "", results |-> <<>>],
     [kind |-> "ok", message |-> "",
      results |-> <<[geometry |-> Location(129716, 775946),
                     formatted_address |-> "Bengaluru, Karnataka 560001, India"]>>]}

CityHospital ==
    [place_id |-> "p1", name |-> "City Hospital", types |-> <<"hospital", "health">>,
     geometry |-> Location(129700, 775900),
     rating |-> 4, price_level |-> 2, user_ratings_total |-> 120]
GreenSpa ==
    [place_id |-> "p2", name |-> "Green Spa", types |-> <<"spa">>,
     geometry |-> Location(129800, 776000),
     rating |-> 5, price_level |-> 3, user_ratings_total |-> 8]
DrRao ==
    [place_id |-> "p3", name |-> "Dr Rao", types |-> <<"doctor">>,
     geometry |-> Location(0, 776100),
     price_level |-> 1, user_ratings_total |-> 40]

SearchOutcomes ==
    {[kind |-> "throw", results |-> <<>>], [kind |-> "nodata", results |-> <<>>]}
    \cup {[kind |-> "ok", results |-> r] :
            r \in ListsUpTo({CityHospital, GreenSpa, DrRao}, MaxResults)}

StoredProviders ==
    {[placeId |-> "p1", name |-> "City Hospital", lat |-> 129700, lng |-> 775900,
      type |-> "Hospital", rating |-> 4, priceLevel |-> 2, reviewCount |-> 120],
     [placeId |-> "p9", name |-> "Lake Clinic", lat |-> 129900, lng |-> 775800,
      type |-> "Clinic", rating |-> 3, priceLevel |-> 1, reviewCount |-> 12]}

\* providerService.findNearbyProviders is a black box: it throws, or returns
\* null, or returns an ordered list of stored providers
StoreOutcomes ==
    {[kind |-> "throw", message |-> "store unavailable", list |-> <<>>],
     [kind |-> "null", message |-> "", list |-> <<>>]}
    \cup {[kind |-> "list", message |-> "", list |-> l] :
            l \in ListsUpTo(StoredProviders, MaxResults)}

\* ---- the handler, one action per stretch between two awaits

\* lines 41-101: the request arrives; validation, defaults, direct coordinates
Receive(q) ==
    /\ pc = "idle"
    /\ req' = q
    /\ calls' = <<>>
    /\ providers' = <<>>
    /\ formattedAddress' = Null
    /\ IF missingParameters(q)
       THEN /\ res' = ErrorResponse(400,
                        "Search query, location (lat/lng), or pincode is required",
                        Undefined)
            /\ pc' = "done"
            /\ latitude' = DefaultLatitude
            /\ longitude' = DefaultLongitude
            /\ isUserLocation' = FALSE
       ELSE /\ res' = NoResponse
            /\ IF Truthy(q.pincode)
               THEN /\ pc' = "geocode"
                    /\ latitude' = DefaultLatitude
                    /\ longitude' = DefaultLongitude
                    /\ isUserLocation' = FALSE
               ELSE /\ pc' = IF isTextSearch(q) THEN "textSearch" ELSE "store"
                    /\ IF Truthy(q.lat) /\ Truthy(q.lng)
                       THEN /\ latitude' = parseFloat(q.lat)
                            /\ longitude' = parseFloat(q.lng)
                            /\ isUserLocation' = TRUE
                       ELSE /\ latitude' = DefaultLatitude
                            /\ longitude' = DefaultLongitude
                            /\ isUserLocation' = FALSE
    /\ UNCHANGED <<utilVars, historyVars, detailsVars>>

\* lines 63-84, then 92-103: geocodePincode settles
GeocodeReturn ==
    /\ pc = "geocode"
    /\ \E upstream \in GeocodeOutcomes :
         LET g == geocodePincode(req.pincode, upstream)
         IN  /\ calls' = calls \o <<[fn |-> "geocodePincode", pincode |-> req.pincode,
                                        threw |-> ~g.ok]>>
                         \o (IF g.upstreamCalls > 0
                             THEN <<[fn |-> "googleMapsClient.geocode",
                                     address |-> req.pincode]>>
                             ELSE <<>>)
             /\ IF g.ok
                THEN /\ latitude' = g.lat
                     /\ longitude' = g.lng
                     /\ formattedAddress' = g.formattedAddress
                     /\ isUserLocation' = TRUE
                     /\ pc' = IF isTextSearch(req) THEN "textSearch" ELSE "store"
                     /\ UNCHANGED res
                ELSE /\ res' = ErrorResponse(400, "Invalid pincode: " \o g.message,
                                             Undefined)
                     /\ pc' = "done"
                     /\ UNCHANGED <<latitude, longitude, formattedAddress, isUserLocation>>
    /\ UNCHANGED <<req, providers, utilVars, historyVars, detailsVars>>

\* lines 104-126, then 168-187: the text search settles
TextSearchReturn ==
    /\ pc = "textSearch"
    /\ LET options == [type |-> req.type, specialty |-> req.specialty]
       IN  \E upstream \in SearchOutcomes :
           \E rss \in RandomStreams(survivingResults(options, upstream)) :
             LET r == searchHealthcareProviders(req.query, options, upstream, rss)
                 made == <<[fn |-> "searchHealthcareProviders", query |-> req.query,
                            options |-> options, threw |-> ~r.ok],
                           upstreamSearchCall(req.query, options)>>
             IN  IF r.ok
                 THEN LET lat == IF Len(r.providers) > 0 THEN r.providers[1].lat
                                 ELSE latitude
                          lng == IF Len(r.providers) > 0 THEN r.providers[1].lng
                                 ELSE longitude
                      IN  /\ providers' = r.providers
                          /\ latitude' = lat
                          /\ longitude' = lng
                          /\ calls' = calls \o made \o <<MapUrlCall>>
                          /\ res' = OkResponse(lat, lng, isUserLocation,
                                               formattedAddress, r.providers)
                 ELSE /\ res' = ErrorResponse(500, "Failed to search providers", r.message)
                      /\ calls' = calls \o made
                      /\ UNCHANGED <<providers, latitude, longitude>>
    /\ pc' = "done"
    /\ UNCHANGED <<req, isUserLocation, formattedAddress, utilVars, historyVars, detailsVars>>

\* (a variant that wants more than one record)
useStoreResultMoreThanOne(out) == out.kind = "list" /\ Len(out.list) > 1

\* line 141: dbProviders && dbProviders.length > 0
useStoreResult(out) == out.kind = "list" /\ Len(out.list) > 0

\* the filter handed to providerService.findNearbyProviders (lines 131-139)
storeFilter ==
    [lat |-> latitude, lng |-> longitude, type |-> req.type,
     specialty |-> req.specialty, radius |-> 5000]

\* lines 129-143, then 168-187: providerService.findNearbyProviders settles
StoreReturn ==
    /\ pc = "store"
    /\ \E out \in StoreOutcomes :
         /\ calls' = calls
                \o <<[fn |-> "providerService.findNearbyProviders",
                      filter |-> storeFilter, threw |-> out.kind = "throw",
                      returned |-> out.list]>>
                \o (IF out.kind # "throw" /\ useStoreResult(out)
                    THEN <<MapUrlCall>> ELSE <<>>)
         /\ IF out.kind = "throw"
            THEN /\ res' = ErrorResponse(500, "Failed to find nearby providers",
                                         out.message)
                 /\ pc' = "done"
                 /\ UNCHANGED providers
            ELSE IF useStoreResult(out)
            THEN /\ providers' = out.list
                 /\ res' = OkResponse(latitude, longitude, isUserLocation,
                                      formattedAddress, out.list)
                 /\ pc' = "done"
            ELSE /\ pc' = "externalSearch"
                 /\ UNCHANGED <<providers, res>>
    /\ UNCHANGED <<req, latitude, longitude, isUserLocation, formattedAddress,
                   utilVars, historyVars, detailsVars>>

\* the fallback call's arguments (lines 147-154)
\* the search keyword (line 147)
fallbackKeyword == OrElse(req.type, OrElse(req.specialty, "medical healthcare"))
\* (a variant that defaults the type only when no specialty is given either)
fallbackOptionsBareOnly ==
    [lat |-> latitude, lng |-> longitude, radius |-> 5000,
     type |-> IF Truthy(req.type) \/ Truthy(req.specialty) THEN req.type ELSE "hospital",
     specialty |-> req.specialty]

\* the options object (lines 148-154)
fallbackOptions ==
    [lat |-> latitude, lng |-> longitude, radius |-> 5000,
     type |-> OrElse(req.type, "hospital"), specialty |-> req.specialty]

\* lines 144-166, then 168-187: the fallback search settles
ExternalSearchReturn ==
    /\ pc = "externalSearch"
    /\ \E upstream \in SearchOutcomes :
       \E rss \in RandomStreams(survivingResults(fallbackOptions, upstream)) :
         LET r == searchHealthcareProviders(fallbackKeyword, fallbackOptions,
                                            upstream, rss)
             made == <<[fn |-> "searchHealthcareProviders", query |-> fallbackKeyword,
                        options |-> fallbackOptions, threw |-> ~r.ok],
                       upstreamSearchCall(fallbackKeyword, fallbackOptions)>>
         IN  IF r.ok
             THEN /\ providers' = r.providers
                  /\ calls' = calls \o made \o <<MapUrlCall>>
                  /\ res' = OkResponse(latitude, longitude, isUserLocation,
                                       formattedAddress, r.providers)
             ELSE /\ res' = ErrorResponse(500, "Failed to find nearby providers",
                                          r.message)
                  /\ calls' = calls \o made
                  /\ UNCHANGED providers
    /\ pc' = "done"
    /\ UNCHANGED <<req, latitude, longitude, isUserLocation, formattedAddress,
                   utilVars, historyVars, detailsVars>>

InitSearch ==
    /\ pc = "idle"
    /\ req = NoRequest
    /\ latitude = DefaultLatitude
    /\ longitude = DefaultLongitude
    /\ isUserLocation = FALSE
    /\ formattedAddress = Null
    /\ providers = <<>>
    /\ calls = <<>>
    /\ res = NoResponse

\* the handler has returned: its locals are gone, the next request starts afresh
Return ==
    /\ pc = "done"
    /\ pc' = "idle"
    /\ req' = NoRequest
    /\ latitude' = DefaultLatitude
    /\ longitude' = DefaultLongitude
    /\ isUserLocation' = FALSE
    /\ formattedAddress' = Null
    /\ providers' = <<>>
    /\ calls' = <<>>
    /\ res' = NoResponse
    /\ UNCHANGED <<utilVars, historyVars, detailsVars>>

-----------------------------------------------------------------------------
(* The utility functions called on their own *)

DirectPincodes == {Undefined, "", "1", "56", "560", "5600", "560001"}

\* geocodePincode(pincode)
GeocodePincodeCall ==
    /\ uop = "none"
    /\ \E pincode \in DirectPincodes, upstream \in GeocodeOutcomes :
         /\ uop' = "geocodePincode"
         /\ uin' = [pincode |-> pincode, upstream |-> upstream]
         /\ uout' = geocodePincode(pincode, upstream)
         /\ UNCHANGED <<searchVars, historyVars, detailsVars>>

PlaceNames ==
    {"City Hospital", "Doctor Rao", "Sunrise Clinic", "PHC Rampur", "Apollo Pharmacy",
     "Drug Mart", "Smile Dental", "Path Lab", "Test House", "Wellness Center"}
PlaceTags ==
    {"hospital", "doctor", "physician", "clinic", "pharmacy", "dentist", "laboratory",
     "health", "point_of_interest"}

\* raw place records: every name (or none) with every tag list (or none), the
\* numbers present
TypedPlaces ==
    {[name |-> n, types |-> t, geometry |-> Location(129700, 775900),
      rating |-> 4, price_level |-> 2, user_ratings_total |-> 120] :
        n \in PlaceNames, t \in SeqsUpTo(PlaceTags, MaxResults)}
    \cup {[types |-> t, geometry |-> Location(129700, 775900),
           rating |-> 4, price_level |-> 2, user_ratings_total |-> 120] :
            t \in SeqsUpTo(PlaceTags, MaxResults)}
    \cup {[name |-> n, geometry |-> Location(129700, 775900),
           rating |-> 4, price_level |-> 2, user_ratings_total |-> 120] :
            n \in PlaceNames}

\* raw place records: each of rating, price_level and user_ratings_total missing
\* or present (price_level 0 is the upstream's "free", user_ratings_total 0 a
\* place nobody has rated)
BarePlace == [place_id |-> "p7", name |-> "Lake View", types |-> <<"health">>,
              geometry |-> Location(129900, 775800)]
WithField(place, field, values) ==
    {place} \cup {[k \in DOMAIN place \cup {field} |->
                      IF k = field THEN v ELSE place[k]] : v \in values}
NumberedPlaces ==
    UNION {UNION {WithField(p2, "user_ratings_total", {0, 120}) :
                    p2 \in WithField(p1, "price_level", {0, 2})} :
             p1 \in WithField(BarePlace, "rating", {4})}

\* formatProviderFromGoogleMaps(place)
FormatProviderCall ==
    /\ uop = "none"
    /\ \E place \in TypedPlaces \cup NumberedPlaces :
       \E rs \in [1..Cardinality(needsRandom(place)) -> Rand] :
         /\ uop' = "formatProviderFromGoogleMaps"
         /\ uin' = [place |-> place, random |-> rs]
         /\ uout' = formatProviderFromGoogleMaps(place, rs)
         /\ UNCHANGED <<searchVars, historyVars, detailsVars>>

\* a provider list of length n
ProviderList(n) ==
    [i \in 1..n |->
        [placeId |-> "p", name |-> "Provider", lat |-> 129000 + i, lng |-> 775000 - i,
         type |-> "Clinic", rating |-> 4, priceLevel |-> 2, reviewCount |-> 10]]

\* generateStaticMapUrl(center, providers, 14, 600, 400)
GenerateStaticMapUrlCall ==
    /\ uop = "none"
    /\ \E n \in 0..MaxProviders, userLocation \in BOOLEAN,
          lat \in {DefaultLatitude, 0}, lng \in {DefaultLongitude, 775946} :
         LET center == [lat |-> lat, lng |-> lng, isUserLocation |-> userLocation]
         IN  /\ uop' = "generateStaticMapUrl"
             /\ uin' = [center |-> center, providers |-> ProviderList(n)]
             /\ uout' = generateStaticMapUrl(center, ProviderList(n), 14, 600, 400)
             /\ UNCHANGED <<searchVars, historyVars, detailsVars>>

\* the call has returned
UtilReturn ==
    /\ uop # "none"
    /\ uop' = "none" /\ uin' = <<>> /\ uout' = <<>>
    /\ UNCHANGED <<searchVars, historyVars, detailsVars>>

NextUtil ==
    \/ UtilReturn
    \/ GeocodePincodeCall
    \/ FormatProviderCall
    \/ GenerateStaticMapUrlCall

-----------------------------------------------------------------------------
(* part_001: GET /api/facilities, GET /api/history/:searchId/results and
   DELETE /api/history/:userId *)

Slots == 1..MaxRequests

UserIds == {"u1", "u2"}

NoQuery ==
    [lat |-> Undefined, lng |-> Undefined, type |-> Undefined, speciality |-> Undefined,
     priceRange |-> Undefined, userId |-> Undefined]

\* req.query of GET /api/facilities: no filter, a speciality, or a price range;
\* with or without a userId
FacilityQueries ==
    {[lat |-> "13", lng |-> "77", type |-> Undefined, speciality |-> f[1],
      priceRange |-> f[2], userId |-> u] :
        f \in {<<Undefined, Undefined>>, <<"Doctor", Undefined>>, <<Undefined, "1">>},
        u \in UserIds \cup {Undefined}}

\* what googleMapsClient.placesNearby answers to /api/facilities
FacilityOutcomes ==
    {[kind |-> "throw", results |-> <<>>]}
    \cup {[kind |-> "ok", results |-> r] :
            r \in ListsUpTo({CityHospital, DrRao}, MaxResults)}

NoResult == [status |-> 0, success |-> FALSE, error |-> Undefined, facilities |-> <<>>]
JsonFacilities(list) ==
    [status |-> 200, success |-> FALSE, error |-> Undefined, facilities |-> list]
JsonSuccess ==
    [status |-> 200, success |-> TRUE, error |-> Undefined, facilities |-> <<>>]
JsonError(status, error) ==
    [status |-> status, success |-> FALSE, error |-> error, facilities |-> <<>>]

\* a handler run: its position, req.query / req.params, and its locals
\* `facilities` and `error` (Undefined until the store call settles, Null for no error)
IdleSlot == [kind |-> "idle", pc |-> "idle", query |-> NoQuery, facilities |-> <<>>,
             error |-> Undefined, res |-> NoResult]

\* lines 50-60: the speciality and price filters
matchesSpeciality(f, speciality) ==
    ~Truthy(speciality) \/ toLowerCase(speciality) \in Range(f.types)
matchesPrice(f, priceRange) ==
    ~Truthy(priceRange) \/ (TruthyNum(f, "price_level") /\ f.price_level <= parseInt(priceRange))
filterFacilities(results, speciality, priceRange) ==
    LET keep(f) == matchesSpeciality(f, speciality) /\ matchesPrice(f, priceRange)
    IN  SelectSeq(results, keep)

\* (a variant that records only whether anything was found)
searchDataFoundFlag(q, facilities) ==
    [user_id |-> q.userId,
     search_params |-> [lat |-> parseFloat(q.lat), lng |-> parseFloat(q.lng),
                        type |-> q.type, speciality |-> q.speciality,
                        priceRange |-> q.priceRange],
     result_count |-> Min(Len(facilities), 1)]

\* lines 64-75: the record written to search_history (its timestamp, the time of
\* the call, is left out: no decision reads it)
searchData(q, facilities) ==
    [user_id |-> q.userId,
     search_params |-> [lat |-> parseFloat(q.lat), lng |-> parseFloat(q.lng),
                        type |-> q.type, speciality |-> q.speciality,
                        priceRange |-> q.priceRange],
     result_count |-> Len(facilities)]

\* (a variant that keeps one row per user)
insertRowPerUser(table, id, data) ==
    LET others(row) == row.user_id # data.user_id
    IN  Append(SelectSeq(table, others),
               [id |-> id, user_id |-> data.user_id,
                search_params |-> data.search_params,
                result_count |-> data.result_count])

\* supabase.from('search_history').insert(data): the table gives the row its id
insertRow(table, id, data) ==
    Append(table, [id |-> id, user_id |-> data.user_id,
                   search_params |-> data.search_params,
                   result_count |-> data.result_count])

\* (a variant whose filter is inverted)
deleteRowsOfOthers(table, userId) ==
    LET same(row) == row.user_id = userId IN SelectSeq(table, same)

\* supabase.from('search_history').delete().eq('user_id', userId)
deleteRows(table, userId) ==
    LET others(row) == row.user_id # userId IN SelectSeq(table, others)

\* GET /api/facilities arrives (lines 34-46, up to the await of placesNearby)
FacilitiesReceive(s, q) ==
    /\ slots[s].kind = "idle"
    /\ slots' = [slots EXCEPT ![s] =
                    [kind |-> "facilities", pc |-> "search", query |-> q,
                     facilities |-> <<>>, error |-> Undefined, res |-> NoResult]]
    /\ UNCHANGED <<history, nextId, searchVars, utilVars, detailsVars>>

\* placesNearby settles (lines 48-80, or the catch of line 88)
FacilitiesSearchReturn(s) ==
    /\ slots[s].kind = "facilities" /\ slots[s].pc = "search"
    /\ \E upstream \in FacilityOutcomes :
         LET q == slots[s].query
             facilities == filterFacilities(upstream.results, q.speciality, q.priceRange)
         IN  slots' = [slots EXCEPT ![s] =
                 IF upstream.kind = "throw"
                 THEN [@ EXCEPT !.pc = "done",
                                !.res = JsonError(500, "Failed to fetch medical facilities")]
                 ELSE IF Truthy(q.userId)
                 THEN [@ EXCEPT !.pc = "insert", !.facilities = facilities]
                 ELSE [@ EXCEPT !.pc = "done", !.facilities = facilities,
                                !.res = JsonFacilities(facilities)]]
    /\ UNCHANGED <<history, nextId, searchVars, utilVars, detailsVars>>

\* the insert settles (lines 78-87, or the catch of line 88): the store saves the
\* row, or reports an error value, or the call rejects
FacilitiesInsertReturn(s) ==
    /\ slots[s].kind = "facilities" /\ slots[s].pc = "insert"
    /\ \E outcome \in {"saved", "error", "reject"} :
         /\ IF outcome = "saved"
            THEN /\ history' = insertRow(history, nextId,
                                         searchData(slots[s].query, slots[s].facilities))
                 /\ nextId' = nextId + 1
            ELSE UNCHANGED <<history, nextId>>
         /\ slots' = [slots EXCEPT ![s] =
                 IF outcome = "reject"
                 THEN [@ EXCEPT !.pc = "done",
                                !.res = JsonError(500, "Failed to fetch medical facilities")]
                 ELSE [@ EXCEPT !.pc = "done",
                                !.error = IF outcome = "saved" THEN Null
                                          ELSE "insert failed",
                                !.res = JsonFacilities(slots[s].facilities)]]
    /\ UNCHANGED <<searchVars, utilVars, detailsVars>>

\* DELETE /api/history/:userId arrives (lines 237-244, up to the await)
DeleteReceive(s, userId) ==
    /\ slots[s].kind = "idle"
    /\ slots' = [slots EXCEPT ![s] =
                    [kind |-> "delete", pc |-> "delete",
                     query |-> [NoQuery EXCEPT !.userId = userId],
                     facilities |-> <<>>, error |-> Undefined, res |-> NoResult]]
    /\ UNCHANGED <<history, nextId, searchVars, utilVars, detailsVars>>

\* the delete settles (lines 241-254): the store deletes the user's rows, or
\* reports an error
DeleteReturn(s) ==
    /\ slots[s].kind = "delete" /\ slots[s].pc = "delete"
    /\ \E outcome \in {"deleted", "error"} :
         /\ history' = IF outcome = "deleted"
                       THEN deleteRows(history, slots[s].query.userId)
                       ELSE history
         /\ slots' = [slots EXCEPT ![s] =
                 IF outcome = "deleted"
                 THEN [@ EXCEPT !.pc = "done", !.error = Null, !.res = JsonSuccess]
                 ELSE [@ EXCEPT !.pc = "done", !.error = "delete failed",
                                !.res = JsonError(500, "Failed to clear search history")]]
    /\ UNCHANGED <<nextId, searchVars, utilVars, detailsVars>>

\* ids a replay request may name in :searchId
SearchIds == 1..MaxRequests

\* the 200 body of GET /api/history/:searchId/results (lines 156-160; the
\* timestamp is left out with the column)
JsonReplay(params, results) ==
    [status |-> 200, success |-> FALSE, error |-> Undefined, facilities |-> results,
     searchParams |-> params]

\* .select('*').eq('id', searchId): the rows whose id is searchId
selectById(table, searchId) ==
    LET same(row) == row.id = searchId IN SelectSeq(table, same)

\* GET /api/history/:searchId/results arrives (lines 116-125, up to the await of
\* the select)
ReplayReceive(s, searchId) ==
    /\ slots[s].kind = "idle"
    /\ slots' = [slots EXCEPT ![s] =
                    [kind |-> "replay", pc |-> "select",
                     query |-> [searchId |-> searchId], searchData |-> Undefined,
                     facilities |-> <<>>, error |-> Undefined, res |-> NoResult]]
    /\ UNCHANGED <<history, nextId, searchVars, utilVars, detailsVars>>

\* the select settles (lines 121-141, or the catch of line 162): .single() gives
\* the one matching row, or an error when there is not exactly one; the store may
\* also report an error of its own, or the call may reject
ReplaySelectReturn(s) ==
    /\ slots[s].kind = "replay" /\ slots[s].pc = "select"
    /\ \E outcome \in {"settled", "error", "reject"} :
         LET rows == selectById(history, slots[s].query.searchId)
             searchError == IF outcome = "error" \/ Len(rows) # 1
                            THEN "select failed" ELSE Null
             \* data is null exactly when searchError is set
             data == rows[1]
         IN  slots' = [slots EXCEPT ![s] =
                 IF outcome = "reject"
                 THEN [@ EXCEPT !.pc = "done",
                                !.res = JsonError(500,
                                    "Failed to retrieve historical search results")]
                 ELSE IF searchError # Null
                 THEN [@ EXCEPT !.pc = "done", !.error = searchError,
                                !.res = JsonError(404, "Search not found")]
                 ELSE [@ EXCEPT !.pc = "search", !.error = Null, !.searchData = data]]
    /\ UNCHANGED <<history, nextId, searchVars, utilVars, detailsVars>>

\* the replayed placesNearby settles (lines 143-160, or the catch of line 162)
ReplaySearchReturn(s) ==
    /\ slots[s].kind = "replay" /\ slots[s].pc = "search"
    /\ \E upstream \in FacilityOutcomes :
         LET params == slots[s].searchData.search_params
             facilities == filterFacilities(upstream.results, params.speciality,
                                            params.priceRange)
         IN  slots' = [slots EXCEPT ![s] =
                 IF upstream.kind = "throw"
                 THEN [@ EXCEPT !.pc = "done",
                                !.res = JsonError(500,
                                    "Failed to retrieve historical search results")]
                 ELSE [@ EXCEPT !.pc = "done", !.facilities = facilities,
                                !.res = JsonReplay(params, facilities)]]
    /\ UNCHANGED <<history, nextId, searchVars, utilVars, detailsVars>>

NextHistory ==
    \/ \E s \in Slots, q \in FacilityQueries : FacilitiesReceive(s, q)
    \/ \E s \in Slots : FacilitiesSearchReturn(s)
    \/ \E s \in Slots : FacilitiesInsertReturn(s)
    \/ \E s \in Slots, userId \in UserIds : DeleteReceive(s, userId)
    \/ \E s \in Slots : DeleteReturn(s)
    \/ \E s \in Slots, searchId \in SearchIds : ReplayReceive(s, searchId)
    \/ \E s \in Slots : ReplaySelectReturn(s)
    \/ \E s \in Slots : ReplaySearchReturn(s)

-----------------------------------------------------------------------------
(* mapController.js: MapController.getProviderDetails; googleMapsUtils.js:
   getPlaceDetails; the provider store behind providerService *)

\* the `fields` of the placeDetails request (googleMapsUtils.js line 265)
placeDetailsFields ==
    {"name", "formatted_address", "geometry", "formatted_phone_number", "website",
     "types", "price_level", "rating", "opening_hours", "photos"}

\* a Place Details result carries the requested fields and no other
maskFields(place, fields) == [f \in (DOMAIN place) \cap fields |-> place[f]]

\* req.params.placeId: a place the upstream knows, one it does not, and none
PlaceIds == {"p1", "p9", Undefined}

\* what googleMapsClient.placeDetails answers for an id: it throws, or answers
\* without a result, or with the place of that id
PlaceDetailsOutcomes(id) ==
    {[kind |-> "throw", result |-> <<>>], [kind |-> "noresult", result |-> <<>>]}
    \cup {[kind |-> "ok", result |-> maskFields(place, placeDetailsFields)] :
            place \in {x \in {CityHospital, GreenSpa} : x.place_id = id}}

\* getPlaceDetails(placeId): the provider it returns (found), or null, or it throws
getPlaceDetails(id, upstream, rs) ==
    IF upstream.kind = "throw"
    THEN [ok |-> FALSE, found |-> FALSE, provider |-> Null]
    ELSE IF upstream.kind = "noresult"
    THEN [ok |-> TRUE, found |-> FALSE, provider |-> Null]
    ELSE [ok |-> TRUE, found |-> TRUE,
          provider |-> formatProviderFromGoogleMaps(upstream.result, rs)]

\* providerService.getProviderByPlaceId(id): the record of that external place
\* identifier, or none
getProviderByPlaceId(store, id) == {row \in store : row.placeId = id}

\* providerService.saveProviderDetails(provider): upsert, keyed by the provider's
\* external place identifier
saveProviderDetails(store, provider) ==
    {row \in store : row.placeId # provider.placeId} \cup {provider}

DetailsError(status, error) == [status |-> status, error |-> error, provider |-> Null]
DetailsOk(provider) == [status |-> 200, error |-> Undefined, provider |-> provider]

\* lines 200-209: the request arrives
DetailsReceive(id) ==
    /\ detailsPc = "idle" /\ pc = "idle"
    /\ Len(detailsLog) < MaxLookups
    /\ placeId' = id
    /\ IF ~Truthy(id)
       THEN /\ detailsRes' = DetailsError(400, "Provider ID is required")
            /\ detailsPc' = "done"
       ELSE /\ detailsRes' = NoResponse
            /\ detailsPc' = "lookup"
    /\ UNCHANGED <<placeDetails, detailsCalls, providerStore, detailsLog,
                   searchVars, utilVars, historyVars>>

\* lines 209-216, or the catch of line 227: getProviderByPlaceId settles
LookupReturn ==
    /\ detailsPc = "lookup"
    /\ \E outcome \in {"settled", "throw"} :
         LET found == getProviderByPlaceId(providerStore, placeId)
         IN  /\ detailsCalls' = Append(detailsCalls,
                    [fn |-> "providerService.getProviderByPlaceId",
                     threw |-> outcome = "throw"])
             /\ IF outcome = "throw"
                THEN /\ detailsRes' = DetailsError(500, "Failed to get provider details")
                     /\ detailsPc' = "done"
                ELSE IF found # {}
                THEN /\ detailsRes' = DetailsOk(CHOOSE row \in found : TRUE)
                     /\ detailsPc' = "done"
                ELSE /\ detailsPc' = "details"
                     /\ UNCHANGED detailsRes
    /\ UNCHANGED <<placeId, placeDetails, providerStore, detailsLog,
                   searchVars, utilVars, historyVars>>

\* lines 216-225: getPlaceDetails settles
PlaceDetailsReturn ==
    /\ detailsPc = "details"
    /\ \E upstream \in PlaceDetailsOutcomes(placeId) :
       \E rss \in RandomStreams(IF upstream.kind = "ok" THEN <<upstream.result>>
                                ELSE <<>>) :
         LET d == getPlaceDetails(placeId, upstream,
                                  IF upstream.kind = "ok" THEN rss[1] ELSE <<>>)
         IN  /\ detailsCalls' = Append(detailsCalls,
                    [fn |-> "getPlaceDetails", threw |-> ~d.ok])
             /\ IF ~d.ok
                THEN /\ detailsRes' = DetailsError(500, "Failed to get provider details")
                     /\ detailsPc' = "done"
                     /\ UNCHANGED placeDetails
                ELSE IF ~d.found
                THEN /\ detailsRes' = DetailsError(404, "Provider not found")
                     /\ detailsPc' = "done"
                     /\ UNCHANGED placeDetails
                ELSE /\ placeDetails' = d.provider
                     /\ detailsPc' = "save"
                     /\ UNCHANGED detailsRes
    /\ UNCHANGED <<placeId, providerStore, detailsLog, searchVars, utilVars, historyVars>>

\* lines 219-220, or the catch of line 224: saveProviderDetails settles
SaveReturn ==
    /\ detailsPc = "save"
    /\ \E outcome \in {"saved", "throw"} :
         /\ detailsCalls' = Append(detailsCalls,
                [fn |-> "providerService.saveProviderDetails",
                 threw |-> outcome = "throw"])
         /\ IF outcome = "saved"
            THEN /\ providerStore' = saveProviderDetails(providerStore, placeDetails)
                 /\ detailsRes' = DetailsOk(placeDetails)
            ELSE /\ detailsRes' = DetailsError(500, "Failed to get provider details")
                 /\ UNCHANGED providerStore
    /\ detailsPc' = "done"
    /\ UNCHANGED <<placeId, placeDetails, detailsLog, searchVars, utilVars, historyVars>>

CalledGetPlaceDetails ==
    \E i \in 1..Len(detailsCalls) : detailsCalls[i].fn = "getPlaceDetails"

\* the handler has returned: its locals are gone; what it answered is kept on record
DetailsReturn ==
    /\ detailsPc = "done"
    /\ detailsLog' = Append(detailsLog,
            [placeId |-> placeId, status |-> detailsRes.status,
             external |-> CalledGetPlaceDetails])
    /\ detailsPc' = "idle"
    /\ placeId' = Undefined
    /\ placeDetails' = Null
    /\ detailsCalls' = <<>>
    /\ detailsRes' = NoResponse
    /\ UNCHANGED <<providerStore, searchVars, utilVars, historyVars>>

\* the searchProviders request served between two details requests
DetailsSearchRequests == {[NoRequest EXCEPT !.lat = "13", !.lng = "77"]}

NextDetails ==
    \/ \E id \in PlaceIds : DetailsReceive(id)
    \/ LookupReturn
    \/ PlaceDetailsReturn
    \/ SaveReturn
    \/ DetailsReturn
    \/ (detailsPc = "idle" /\ \E q \in DetailsSearchRequests : Receive(q))
    \/ StoreReturn
    \/ ExternalSearchReturn
    \/ Return

-----------------------------------------------------------------------------
(* Specifications *)

InitUtil == uop = "none" /\ uin = <<>> /\ uout = <<>>

InitHistory ==
    history = <<>> /\ nextId = 1 /\ slots = [s \in 1..MaxRequests |-> IdleSlot]

InitDetails ==
    /\ detailsPc = "idle"
    /\ placeId = Undefined
    /\ placeDetails = Null
    /\ detailsCalls = <<>>
    /\ detailsRes = NoResponse
    /\ providerStore = {}
    /\ detailsLog = <<>>

Init == InitSearch /\ InitUtil /\ InitHistory /\ InitDetails

\* the provider store outlives the process: it may hold rows from earlier on
InitStored ==
    /\ InitSearch /\ InitUtil /\ InitHistory
    /\ detailsPc = "idle"
    /\ placeId = Undefined
    /\ placeDetails = Null
    /\ detailsCalls = <<>>
    /\ detailsRes = NoResponse
    /\ providerStore \in {{}, {row \in StoredProviders : row.placeId = "p9"}}
    /\ detailsLog = <<>>

Next ==
    \/ \E q \in Requests : Receive(q)
    \/ GeocodeReturn
    \/ TextSearchReturn
    \/ StoreReturn
    \/ ExternalSearchReturn
    \/ Return

Spec == Init /\ [][Next]_vars

SpecUtil == Init /\ [][NextUtil]_vars

SpecHistory == Init /\ [][NextHistory]_vars

SpecDetails == InitStored /\ [][NextDetails]_vars

-----------------------------------------------------------------------------
(* Properties *)

Called(fn) == \E i \in 1..Len(calls) : calls[i].fn = fn
Threw(fn) == \E i \in 1..Len(calls) : calls[i].fn = fn /\ calls[i].threw
StoreCalls ==
    {i \in 1..Len(calls) : calls[i].fn = "providerService.findNearbyProviders"}
CalledExternalSearch ==
    \/ Called("searchHealthcareProviders")
    \/ Called("googleMapsClient.placesNearby")
    \/ Called("googleMapsClient.textSearch")

CountMarkers(url, color) ==
    Cardinality({i \in 1..Len(url) : url[i].param = "markers" /\ url[i].color = color})

\* C1: a request with no query, no coordinate pair (both lat and lng) and no postal
\* code is answered 400 with providers = [] and mapUrl = null, and no adapter is
\* called.
C1_RejectedWithoutInput ==
    (pc # "idle" /\ ~Truthy(req.query) /\ ~(Truthy(req.lat) /\ Truthy(req.lng))
        /\ ~Truthy(req.pincode))
    => /\ pc = "done"
       /\ res.status = 400
       /\ res.providers = <<>>
       /\ res.mapUrl = NullUrl
       /\ calls = <<>>

\* C2: when providerService.findNearbyProviders returns at least one record, the
\* external search adapter is not called in that request and the response's
\* providers are the store's list, same elements in the same order.
C2_StoreResultVerbatim ==
    \A i \in StoreCalls :
        (~calls[i].threw /\ Len(calls[i].returned) >= 1)
        => /\ pc = "done"
           /\ res.status = 200
           /\ res.providers = calls[i].returned
           /\ ~CalledExternalSearch

C2_Witness ==
    /\ pc = "done"
    /\ Truthy(req.pincode)
    /\ \E i \in StoreCalls : Len(calls[i].returned) = 2 /\ res.providers = calls[i].returned
    /\ res.providers[1] # res.providers[2]

\* C3: for a provider list of length N the URL of generateStaticMapUrl holds exactly
\* min(N, 10) red markers, and holds the blue centre marker if and only if
\* center.isUserLocation is true.
C3_MarkerCounts ==
    uop = "generateStaticMapUrl"
    => /\ CountMarkers(uout, "red") = Min(Len(uin.providers), 10)
       /\ (CountMarkers(uout, "blue") >= 1) <=> uin.center.isUserLocation

GeocodedAddresses ==
    {o.results[1].formatted_address : o \in {x \in GeocodeOutcomes : Len(x.results) > 0}}

\* C4: in a successful response, a request with a postal code is marked as user
\* location and carries the geocoder's formattedAddress; a request without a postal
\* code carries no formattedAddress (the key's value is null).
C4_FormattedAddress ==
    res.status = 200
    => IF Truthy(req.pincode)
       THEN /\ isUserLocation
            /\ Called("googleMapsClient.geocode")
            /\ "formattedAddress" \in res.keys
            /\ res.formattedAddress \in GeocodedAddresses
            /\ Len(res.providers) > 0 => CountMarkers(res.mapUrl, "blue") = 1
       ELSE /\ res.formattedAddress = Null
            /\ ~Called("geocodePincode")

C4_Witness ==
    /\ res.status = 200
    /\ Truthy(req.pincode)
    /\ res.formattedAddress = "Bengaluru, Karnataka 560001, India"
    /\ Len(res.providers) > 0

\* C5: geocodePincode of a postal code that is empty or shorter than 4 characters
\* fails with the invalid-format error and makes no upstream geocoding call.
C5_ShortPincodeRejected ==
    (uop = "geocodePincode" /\ (~Truthy(uin.pincode) \/ Len(uin.pincode) < 4))
    => /\ ~uout.ok
       /\ uout.upstreamCalls = 0
       /\ Includes(uout.message, "Invalid pincode format")

C5_Witness ==
    /\ uop = "geocodePincode"
    /\ uin.pincode = "560"
    /\ uin.upstream.kind = "ok" /\ Len(uin.upstream.results) > 0
    /\ ~uout.ok
    /\ uout.upstreamCalls = 0

\* C6: a failure of the local store or of the external search gives a 500 response
\* carrying error, details, providers = [] and mapUrl = null; a failure of the
\* geocoder gives a 400 response and neither the store nor the external search is
\* called; in all these cases no map URL is built.
C6_AdapterFailures ==
    /\ (Threw("providerService.findNearbyProviders") \/ Threw("searchHealthcareProviders"))
       => /\ pc = "done"
          /\ res.status = 500
          /\ res.keys = {"error", "details", "providers", "mapUrl"}
          /\ Truthy(res.error) /\ Truthy(res.details)
          /\ res.providers = <<>>
          /\ res.mapUrl = NullUrl
          /\ ~Called("generateStaticMapUrl")
    /\ Threw("geocodePincode")
       => /\ pc = "done"
          /\ res.status = 400
          /\ res.providers = <<>>
          /\ res.mapUrl = NullUrl
          /\ StoreCalls = {}
          /\ ~CalledExternalSearch
          /\ ~Called("generateStaticMapUrl")

C6_Witness ==
    /\ Truthy(req.pincode)
    /\ Called("providerService.findNearbyProviders")
    /\ Threw("searchHealthcareProviders")
    /\ res.status = 500

Priority == <<"Hospital", "Doctor", "Clinic", "Pharmacy", "Dentist", "Laboratory">>

\* the keywords of each category: those looked for in the tags, those in the name
TagKeywords(category) ==
    CASE category = "Hospital" -> {"hospital"}
      [] category = "Doctor" -> {"doctor", "physician"}
      [] category = "Clinic" -> {"clinic"}
      [] category = "Pharmacy" -> {"pharmacy"}
      [] category = "Dentist" -> {"dentist"}
      [] category = "Laboratory" -> {"laboratory"}
NameKeywords(category) ==
    CASE category = "Hospital" -> {"hospital"}
      [] category = "Doctor" -> {"doctor"}
      [] category = "Clinic" -> {"clinic", "phc"}
      [] category = "Pharmacy" -> {"pharmacy", "drug"}
      [] category = "Dentist" -> {"dental", "dentist"}
      [] category = "Laboratory" -> {"lab", "test"}

CategoryMatches(category, place) ==
    \/ \E k \in TagKeywords(category) : Includes(toLowerCase(join(typesOf(place))), k)
    \/ \E k \in NameKeywords(category) : Includes(toLowerCase(nameOf(place)), k)

\* C7: the formatted category is the first of Hospital, Doctor, Clinic, Pharmacy,
\* Dentist, Laboratory whose keyword the tags or the lowercased name match, and
\* 'Healthcare Provider' when none matches; tags with both a hospital and a doctor
\* keyword give Hospital.
C7_CategoryPriority ==
    uop = "formatProviderFromGoogleMaps"
    => LET place == uin.place
           matching == {i \in 1..Len(Priority) : CategoryMatches(Priority[i], place)}
       IN  /\ \A i \in matching :
                 (\A j \in matching : i <= j) => uout.type = Priority[i]
           /\ matching = {} => uout.type = "Healthcare Provider"
           /\ ({"hospital", "doctor"} \subseteq Range(typesOf(place)))
                 => uout.type = "Hospital"

C7_Witness ==
    /\ uop = "formatProviderFromGoogleMaps"
    /\ "types" \in DOMAIN uin.place
    /\ uin.place.types = <<"doctor", "hospital">>
    /\ uout.type = "Hospital"

\* C8: a missing rating is replaced by an integer in [3,5], a missing price level by
\* one in [1,3], a missing review count by one in [5,25); a value that is present
\* upstream is passed through unchanged.
C8_DefaultsAndPassThrough ==
    uop = "formatProviderFromGoogleMaps"
    => LET place == uin.place
       IN  /\ IF "rating" \in DOMAIN place
              THEN uout.rating = place.rating
              ELSE uout.rating \in 3..5
           /\ IF "price_level" \in DOMAIN place
              THEN uout.priceLevel = place.price_level
              ELSE uout.priceLevel \in 1..3
           /\ IF "user_ratings_total" \in DOMAIN place
              THEN uout.reviewCount = place.user_ratings_total
              ELSE uout.reviewCount \in 5..24

RowsOf(userId) == {i \in 1..Len(history) : history[i].user_id = userId}

\* C9: when the store reports no error, DELETE /api/history/:userId leaves no record
\* owned by that user and responds success: true, also when the user had no record.
C9_DeleteLeavesNoRecord ==
    [][\A s \in Slots :
          (/\ slots[s].kind = "delete" /\ slots[s].pc = "delete"
           /\ slots'[s].pc = "done" /\ slots'[s].error = Null)
          => /\ \A i \in 1..Len(history') : history'[i].user_id # slots[s].query.userId
             /\ slots'[s].res.status = 200
             /\ slots'[s].res.success]_vars

C9_Witness ==
    \E s, t \in Slots :
        /\ s # t
        /\ slots[s].kind = "delete" /\ slots[t].kind = "delete"
        /\ slots[s].query.userId = slots[t].query.userId
        /\ slots[s].pc = "done" /\ slots[t].pc = "done"
        /\ slots[s].res.success /\ slots[t].res.success
        /\ RowsOf(slots[s].query.userId) = {}

SavedSearches(userId) ==
    {s \in Slots : /\ slots[s].kind = "facilities" /\ slots[s].pc = "done"
                   /\ slots[s].res.status = 200
                   /\ slots[s].query.userId = userId /\ slots[s].error = Null}

\* C10: however GET /api/facilities requests interleave, each one with a userId whose
\* search and insert succeed adds exactly one record owned by that user, and one
\* without a userId adds none: two searches of one user leave two rows.
C10_OneRowPerSearch ==
    (\A s \in Slots : slots[s].kind # "delete")
    => /\ \A u \in UserIds : Cardinality(RowsOf(u)) = Cardinality(SavedSearches(u))
       /\ \A i \in 1..Len(history) : history[i].user_id \in UserIds
       /\ \A i, j \in 1..Len(history) : i # j => history[i].id # history[j].id

C10_Witness ==
    /\ SavedSearches("u1") = Slots
    /\ Cardinality(RowsOf("u1")) = Cardinality(Slots)
    /\ Cardinality(Slots) >= 2
    /\ \E s \in Slots : ~Truthy(slots[s].query.speciality)

\* C11: for GET /api/facilities with a userId whose upstream search succeeded, no
\* failure of the history save (an error value reported by the store, or the insert
\* call throwing or rejecting) aborts the request: the response is the facility
\* list, never a 500.
C11_SaveFailureSwallowed ==
    [][\A s \in Slots :
          (/\ slots[s].kind = "facilities" /\ slots[s].pc = "insert"
           /\ slots'[s].pc = "done")
          => /\ slots'[s].res.status = 200
             /\ slots'[s].res.facilities = slots[s].facilities]_vars

\* C12: the result_count of a history record is the number of facilities (after
\* the speciality and price filters) that the search creating it returned; no
\* later step changes a record, and no step of GET /api/history/:searchId/results
\* inserts, updates or deletes one, whatever the replay finds.
C12_CountFrozenAtCreation ==
    [][/\ \A s \in Slots :
            (/\ slots[s].kind = "facilities" /\ slots[s].pc = "insert"
             /\ slots'[s].pc = "done" /\ Len(history') > Len(history))
            => /\ Len(history') = Len(history) + 1
               /\ slots'[s].res.status = 200
               /\ history'[Len(history')].result_count = Len(slots'[s].res.facilities)
               /\ slots'[s].res.facilities =
                     filterFacilities(slots'[s].res.facilities,
                                      slots[s].query.speciality,
                                      slots[s].query.priceRange)
       /\ \A i \in 1..Len(history), j \in 1..Len(history') :
            history[i].id = history'[j].id => history[i] = history'[j]
       /\ \A s \in Slots :
            (slots'[s].kind = "replay" /\ slots'[s] # slots[s])
            => history' = history /\ nextId' = nextId]_vars

\* a replay that answered with a different number of results than the record it
\* replayed holds, the record still being as it was created
C12_Witness ==
    \E s \in Slots :
        /\ slots[s].kind = "replay" /\ slots[s].pc = "done"
        /\ slots[s].res.status = 200
        /\ slots[s].searchData.result_count = 2
        /\ Len(slots[s].res.facilities) = 1
        /\ \E i \in 1..Len(history) : history[i] = slots[s].searchData

\* the coordinate pairs a request may legitimately search around: its own lat and
\* lng when both are given, and the location a successful geocoding of its postal
\* code produced
GeocodedLocations ==
    {<<o.results[1].geometry.location.lat, o.results[1].geometry.location.lng>> :
        o \in {g \in GeocodeOutcomes : g.kind = "ok" /\ Len(g.results) > 0}}
RequestedLocations ==
    (IF Truthy(req.lat) /\ Truthy(req.lng)
     THEN {<<parseFloat(req.lat), parseFloat(req.lng)>>} ELSE {})
    \cup (IF Truthy(req.pincode) /\ Called("geocodePincode") /\ ~Threw("geocodePincode")
          THEN GeocodedLocations ELSE {})

\* C13: the store adapter and the coordinate-based external search are only called
\* with a coordinate pair taken from the request (both lat and lng) or from a
\* successfully geocoded postal code, never with the built-in default centre; and a
\* request with a query but no postal code and no complete coordinate pair is served
\* by text search alone, with no location and without consulting the store.
C13_NoDefaultCentre ==
    /\ \A i \in 1..Len(calls) :
         /\ calls[i].fn = "providerService.findNearbyProviders"
            => <<calls[i].filter.lat, calls[i].filter.lng>> \in RequestedLocations
         /\ calls[i].fn = "googleMapsClient.placesNearby"
            => calls[i].location \in RequestedLocations
    /\ (/\ pc \notin {"idle", "textSearch"}
        /\ Truthy(req.query) /\ ~Truthy(req.pincode)
        /\ ~(Truthy(req.lat) /\ Truthy(req.lng)))
       => /\ StoreCalls = {}
          /\ Called("googleMapsClient.textSearch")
          /\ ~Called("googleMapsClient.placesNearby")

\* the upstream result a returned provider was formatted from
UpstreamPlace(id) ==
    CHOOSE place \in {CityHospital, GreenSpa, DrRao} : place.place_id = id

\* C14: searchHealthcareProviders sends a supplied type upstream as the category
\* filter when it matches a recognized category case-insensitively; in every other
\* case (type absent, or supplied but not recognized) it sends no category filter
\* and returns only results whose upstream tags intersect the recognized list.
C14_CategoryFilter ==
    \A i \in 1..Len(calls) :
        calls[i].fn = "searchHealthcareProviders"
        => LET type == calls[i].options.type
               sent == calls[i + 1].type
           IN  IF Truthy(type) /\ toLowerCase(type) \in MEDICAL_PLACE_TYPES
               THEN sent = toLowerCase(type)
               ELSE /\ sent = Undefined
                    /\ res.status = 200
                       => \A k \in 1..Len(providers) :
                            \E tag \in Range(UpstreamPlace(providers[k].placeId).types) :
                                tag \in MEDICAL_PLACE_TYPES

\* the searchHealthcareProviders calls made as the fallback from the store
FallbackCalls ==
    {i \in 2..Len(calls) : /\ calls[i].fn = "searchHealthcareProviders"
                           /\ calls[i - 1].fn = "providerService.findNearbyProviders"}

ExpectedFallbackKeyword ==
    IF Truthy(req.type) THEN req.type
    ELSE IF Truthy(req.specialty) THEN req.specialty
    ELSE "medical healthcare"

\* C15 (as stated): on the fallback from an empty store result the keyword is type,
\* else specialty, else "medical healthcare", and the category filter is the
\* request's type, defaulted to hospital only when neither type nor specialty was
\* supplied.
C15_HospitalOnlyWithoutSpecialty ==
    \A i \in FallbackCalls :
        /\ calls[i].query = ExpectedFallbackKeyword
        /\ calls[i].options.type =
              IF Truthy(req.type) THEN req.type
              ELSE IF Truthy(req.specialty) THEN Undefined
              ELSE "hospital"

\* C15 (amended): on the fallback from an empty store result the keyword is type,
\* else specialty, else "medical healthcare", and the category filter is the
\* request's type, defaulted to hospital whenever type was not supplied, whether or
\* not a specialty was; the specialty is passed on unchanged.
C15_HospitalWheneverNoType ==
    \A i \in FallbackCalls :
        /\ calls[i].query = ExpectedFallbackKeyword
        /\ calls[i].options.type = IF Truthy(req.type) THEN req.type ELSE "hospital"
        /\ calls[i].options.specialty = req.specialty

C15_Witness ==
    \E i \in FallbackCalls :
        /\ ~Truthy(req.type) /\ req.specialty = "cardiology"
        /\ calls[i].query = "cardiology"
        /\ calls[i].options.type = "hospital"
        /\ calls[i + 1].type = "hospital"

\* C16: searchHealthcareProviders makes the radius-bounded nearby search whenever
\* both a latitude and a longitude are supplied, for every numeric value of either
\* including 0, and the unbounded text search only when one of them is not supplied.
C16_NearbyWheneverCoordinates ==
    \A i \in 1..Len(calls) :
        calls[i].fn = "searchHealthcareProviders"
        => LET options == calls[i].options
               upstream == calls[i + 1]
           IN  IF "lat" \in DOMAIN options /\ "lng" \in DOMAIN options
               THEN /\ upstream.fn = "googleMapsClient.placesNearby"
                    /\ upstream.location = <<options.lat, options.lng>>
                    /\ upstream.radius = options.radius
               ELSE upstream.fn = "googleMapsClient.textSearch"

\* C17: once getProviderDetails(placeId) has missed the store, got the details from
\* upstream and saved them, the store holds a record keyed by that placeId, and no
\* later getProviderDetails for that placeId makes an external details call; no step
\* of searchProviders writes to the store.
C17_SavedUnderRequestedId ==
    [][/\ (detailsPc = "save" /\ detailsRes'.status = 200)
          => \E row \in providerStore' : row.placeId = placeId
       /\ (detailsPc = "lookup" /\ detailsPc' = "details")
          => ~\E i \in 1..Len(detailsLog) :
                /\ detailsLog[i].placeId = placeId
                /\ detailsLog[i].external /\ detailsLog[i].status = 200
       /\ (pc' # pc) => providerStore' = providerStore]_vars

====
